---- MODULE Spec2Model ----
(***************************************************************************)
(* A model of the uefi-rs binding layer: the runtime services' variable    *)
(* access (get_variable, VariablesIterator), the Time record, device path  *)
(* traversal and the LoadedImage protocol view.                            *)
(*                                                                         *)
(* The firmware behind the function pointers is the environment: it is     *)
(* modelled as the UEFI contract of each service plus, when the flag       *)
(* fw_faulty is set, arbitrary status codes and arbitrary reported sizes.  *)
(***************************************************************************)
EXTENDS Integers, Sequences, FiniteSets, TLC

VARIABLES
    \* ---- RuntimeServices::get_variable ----
    gv_pc,        \* "off" | "entry" | "loop" | "done": position in get_variable
    gv_var,       \* the Variable argument: [name : Seq(char), vendor : guid]
    name,         \* the local `name` (Vec<u16>), encoded name plus the 0 unit
    data,         \* the local `data` (Vec<u8>)
    data_size,    \* the local `data_size` (usize)
    attributes,   \* the local `attributes` (u32)
    gv_result,    \* the value get_variable returned (NoResult until it returns)
    gv_last,      \* the last firmware call made by get_variable
    gv_calls,     \* number of firmware calls made so far (saturates at MaxCalls)
    fw_var,       \* the firmware's stored variable: [len, ver, attrs]
    fw_faulty,    \* the firmware may answer with any status and any size
    fw_shared,    \* another processor may change the stored variable
    \* ---- RuntimeServices::set_variable ----
    sv_pc,        \* "off" | "entry" | "done"
    sv_args,      \* the arguments: [name, vendor, attributes, data]
    sv_call,      \* what the firmware function was called with, if it was
    sv_result,    \* the value set_variable returned
    \* ---- VariablesIterator ----
    it_pc,        \* "off" | "iter" | "panicked"
    buffer,       \* self.buffer (Vec<u16>): the cursor's name, reused by every call
    guid,         \* self.guid: the cursor's vendor GUID
    it_ret,       \* what the last next() returned: Some(Variable), None, or a panic
    it_last,      \* the statuses of the firmware calls made by the last next()
    it_yielded,   \* the Variables yielded so far, in order
    it_nexts,     \* number of next() calls made so far
    fw_store,     \* the firmware's variables, in its enumeration order
    it_contract,  \* the firmware is one that keeps to the contract throughout
    fw_enum_faults, \* how many more times the enumeration call may break its contract
    \* ---- DevicePath ----
    dp_pc,        \* "off" | "walk"
    dp_chain,     \* the node headers the device path was built from
    dp_mem,       \* the bytes of the device path in memory
    dp_node,      \* the byte offset of the node the caller holds (&DevicePath)
    dp_steps,     \* number of next_node calls made
    \* ---- Time::new ----
    tm_pc,        \* "off" | "call" | "returned" | "panicked"
    tm_args,      \* the arguments of Time::new
    tm_out,       \* the Time it returned, if any
    \* ---- LoadedImage ----
    li_pc,        \* "off" | "open"
    li,           \* the fields of the LoadedImage table
    li_ret,       \* the last getter called and what it returned
    li_call,      \* the last operation called and its argument
    li_read,      \* the memory the last load_options call read
    li_mem        \* the bytes of memory around the load options

gv_vars == <<gv_pc, gv_var, name, data, data_size, attributes, gv_result,
             gv_last, gv_calls, fw_var, fw_faulty, fw_shared>>

sv_vars == <<sv_pc, sv_args, sv_call, sv_result>>

it_vars == <<it_pc, buffer, guid, it_ret, it_last, it_yielded, it_nexts,
             fw_store, it_contract, fw_enum_faults>>

dp_vars == <<dp_pc, dp_chain, dp_mem, dp_node, dp_steps>>

tm_vars == <<tm_pc, tm_args, tm_out>>

li_vars == <<li_pc, li, li_ret, li_call, li_read, li_mem>>

vars == <<gv_vars, sv_vars, it_vars, dp_vars, tm_vars, li_vars>>

\* What a step of each part leaves alone.
gv_others == <<sv_vars, it_vars, dp_vars, tm_vars, li_vars>>
sv_others == <<gv_vars, it_vars, dp_vars, tm_vars, li_vars>>
it_others == <<gv_vars, sv_vars, dp_vars, tm_vars, li_vars>>
dp_others == <<gv_vars, sv_vars, it_vars, tm_vars, li_vars>>
tm_others == <<gv_vars, sv_vars, it_vars, dp_vars, li_vars>>
li_others == <<gv_vars, sv_vars, it_vars, dp_vars, tm_vars>>

-----------------------------------------------------------------------------
(* Bounds of the model.                                                    *)

\* The stored variable is at most DefaultDataSize + MaxExtra bytes long.
MaxExtra == 2
\* The call counter saturates here.
MaxCalls == 3
\* Versions of the stored value (a write by another processor changes it).
MaxVer == 2

-----------------------------------------------------------------------------
(* Status codes (crate::Status) and the Result taxonomy.                   *)

Warnings == {"WARN_UNKNOWN_GLYPH", "WARN_BUFFER_TOO_SMALL"}
Errors == {"BUFFER_TOO_SMALL", "NOT_FOUND", "DEVICE_ERROR", "INVALID_PARAMETER"}
Statuses == {"SUCCESS"} \cup Warnings \cup Errors

\* Status::is_success / is_warning / is_error
IsSuccess(s) == s = "SUCCESS"
IsWarning(s) == s \in Warnings
IsError(s) == s \in Errors

\* Option<T> as a sequence of zero or one element.
None == <<>>
Some(x) == <<x>>

\* Ok(Completion::new(status, value))
Ok(s, v) == [kind |-> "Ok", status |-> s, value |-> Some(v)]
\* Err(status.into()): an error carries the status and no value
Err(s) == [kind |-> "Err", status |-> s, value |-> None]
NoResult == [kind |-> "None", status |-> "NONE", value |-> None]

-----------------------------------------------------------------------------
(* Vec helpers.                                                            *)

Min(a, b) == IF a < b THEN a ELSE b

Zeros(n) == [i \in 1..n |-> 0]

\* Vec::truncate(len): keeps the first len elements, no effect when len >= v.len()
Truncate(v, len) == IF len >= Len(v) THEN v ELSE SubSeq(v, 1, len)

\* Vec::resize(new_len, value): truncates, or extends with `value`
Resize(v, new_len, value) ==
    IF new_len <= Len(v) THEN SubSeq(v, 1, new_len)
    ELSE v \o [i \in 1..(new_len - Len(v)) |-> value]

\* slice[..n] := src, the rest of the buffer untouched (a firmware write)
WriteAt0(buf, src) ==
    [i \in 1..Len(buf) |-> IF i <= Len(src) THEN src[i] ELSE buf[i]]

-----------------------------------------------------------------------------
(* UCS-2 to UTF-8, and Rust strings.                                       *)

\* The UTF-8 bytes ucs2::decode writes for one 16-bit unit: one byte below
\* 0x80, two below 0x800, three otherwise.
Utf8OfUnit(c) ==
    IF c < 128 THEN <<c>>
    ELSE IF c < 2048 THEN <<192 + (c \div 64), 128 + (c % 64)>>
    ELSE <<224 + (c \div 4096), 128 + ((c \div 64) % 64), 128 + (c % 64)>>

RECURSIVE Utf8OfUnits(_)
Utf8OfUnits(units) ==
    IF units = <<>> THEN <<>>
    ELSE Utf8OfUnit(Head(units)) \o Utf8OfUnits(Tail(units))

\* ucs2::decode(input, &mut output): <<ok, bytes>>; fails when the output
\* buffer of `cap` bytes is too short.
Ucs2Decode(units, cap) ==
    LET out == Utf8OfUnits(units)
    IN IF Len(out) > cap THEN <<FALSE, <<>>>> ELSE <<TRUE, out>>

\* str::chars(): the code points of a String, held as its UTF-8 bytes.
RECURSIVE StringChars(_)
StringChars(bytes) ==
    IF bytes = <<>> THEN <<>>
    ELSE LET b == bytes[1]
         IN IF b < 128
            THEN <<b>> \o StringChars(SubSeq(bytes, 2, Len(bytes)))
            ELSE IF b < 224
            THEN <<(b - 192) * 64 + (bytes[2] - 128)>>
                 \o StringChars(SubSeq(bytes, 3, Len(bytes)))
            ELSE IF b < 240
            THEN <<(b - 224) * 4096 + (bytes[2] - 128) * 64 + (bytes[3] - 128)>>
                 \o StringChars(SubSeq(bytes, 4, Len(bytes)))
            ELSE <<(b - 240) * 262144 + (bytes[2] - 128) * 4096
                     + (bytes[3] - 128) * 64 + (bytes[4] - 128)>>
                 \o StringChars(SubSeq(bytes, 5, Len(bytes)))

-----------------------------------------------------------------------------
(* UCS-2 encoding of a Rust string (a String is held as its UTF-8 bytes).  *)

\* ucs2::encode_with: the units of a UTF-8 string, <<ok, units>>.  One, two
\* and three byte sequences give one unit each; a four byte sequence (a char
\* above U+FFFF) is an error, and so is a stray continuation byte.
RECURSIVE Ucs2EncodeWith(_)
Ucs2EncodeWith(bytes) ==
    IF bytes = <<>> THEN <<TRUE, <<>>>>
    ELSE LET b == bytes[1]
             n == IF b < 128 THEN 1 ELSE IF b < 224 THEN 2 ELSE 3
             ch == IF b < 128 THEN b
                   ELSE IF b < 224 THEN (b % 32) * 64 + (bytes[2] % 64)
                   ELSE (b % 16) * 4096 + (bytes[2] % 64) * 64 + (bytes[3] % 64)
         IN IF b >= 240 \/ (b >= 128 /\ b < 192)
            THEN <<FALSE, <<>>>>
            ELSE LET rest == Ucs2EncodeWith(SubSeq(bytes, n + 1, Len(bytes)))
                 IN IF rest[1] THEN <<TRUE, <<ch>> \o rest[2]>> ELSE <<FALSE, <<>>>>

\* ucs2::encode(s, &mut buf): <<ok, units>>; also fails when the units do not
\* fit the `cap` units of the buffer.
Ucs2Encode(bytes, cap) ==
    LET r == Ucs2EncodeWith(bytes)
    IN IF r[1] /\ Len(r[2]) <= cap THEN r ELSE <<FALSE, <<>>>>

-----------------------------------------------------------------------------
(* The firmware's variable store, as seen by GetVariable().                *)

DefaultDataSize == 64
MaxDataSize == DefaultDataSize + MaxExtra
\* The lengths the stored variable takes: empty, one byte, and the lengths
\* around the default buffer size.
Sizes == {0, 1} \cup ((DefaultDataSize - 1)..MaxDataSize)
AttrPool == {3, 7}
GuidPool == {"guid_a", "guid_b"}
\* The names asked for, as Strings: "A", "e-acute Euro" (U+00E9 U+20AC), and
\* "A" followed by a char outside the BMP (U+1F600).
NamePool == {<<65>>, <<195, 169, 226, 130, 172>>, <<65, 240, 159, 152, 128>>}

\* The bytes of the stored value: position dependent and never 0, so that a
\* truncated, shifted or partially filled payload differs from it.
ValueBytes(v) == [i \in 1..v.len |-> ((i * v.ver) % 250) + 1]

FwVars == [len : Sizes, ver : 1..MaxVer, attrs : AttrPool]

\* One answer of the firmware's GetVariable: the status, the value left in
\* *data_size, and what it wrote to *attributes and to the data buffer.
Answer(s, size, attrs, buf) ==
    [status |-> s, size |-> size, attributes |-> attrs, data |-> buf]

\* EFI_RUNTIME_SERVICES.GetVariable() per the UEFI contract: too small a buffer
\* is answered by BUFFER_TOO_SMALL and the required size; otherwise the value
\* and the attributes are written and the size is set to the value's length.
FwGetVariableContract(v, size_in, attrs_in, buf) ==
    IF size_in < v.len
    THEN Answer("BUFFER_TOO_SMALL", v.len, attrs_in, buf)
    ELSE Answer("SUCCESS", v.len, v.attrs, WriteAt0(buf, ValueBytes(v)))

\* A faulty or failing firmware: any other status (size and buffers left
\* alone), or BUFFER_TOO_SMALL with any size, larger or smaller.
FwGetVariableFaults(v, size_in, attrs_in, buf) ==
    {Answer(s, size_in, attrs_in, buf) : s \in (Warnings \cup Errors) \ {"BUFFER_TOO_SMALL"}}
    \cup {Answer("BUFFER_TOO_SMALL", n, attrs_in, buf) : n \in Sizes}

FwGetVariable(v, faulty, size_in, attrs_in, buf) ==
    {FwGetVariableContract(v, size_in, attrs_in, buf)}
    \cup (IF faulty THEN FwGetVariableFaults(v, size_in, attrs_in, buf) ELSE {})

-----------------------------------------------------------------------------
(* RuntimeServices::get_variable                                            *)

NoCall == [status |-> "NONE", name |-> <<>>, size_in |-> 0, buf_len |-> 0,
           size_out |-> 0]

GVOff ==
    /\ gv_pc = "off"
    /\ gv_var = [name |-> <<>>, vendor |-> "guid_a"]
    /\ name = <<>>
    /\ data = <<>>
    /\ data_size = 0
    /\ attributes = 0
    /\ gv_result = NoResult
    /\ gv_last = NoCall
    /\ gv_calls = 0
    /\ fw_var = [len |-> 0, ver |-> 1, attrs |-> 3]
    /\ fw_faulty = FALSE
    /\ fw_shared = FALSE

\* The state at the call of get_variable(&self, variable).
GVInit ==
    /\ gv_pc = "entry"
    /\ gv_var \in [name : NamePool, vendor : GuidPool]
    /\ name = <<>>
    /\ data = <<>>
    /\ data_size = 0
    /\ attributes = 0
    /\ gv_result = NoResult
    /\ gv_last = NoCall
    /\ gv_calls = 0
    /\ fw_var \in FwVars
    /\ fw_faulty \in BOOLEAN
    /\ fw_shared \in BOOLEAN

\* Mutant: the name vector has no room for the terminating 0 unit.
NameVec_NoTerminator(name_len) == Zeros(name_len)

\* vec![0; name_len + 1] (lines 130 and 162)
NameVec(name_len) == Zeros(name_len + 1)

\* Lines 129-133 and 161-165: the name as passed to the firmware, <<ok, name>>:
\* the units written over the first name_len units of the zeroed vector.
EncodeName(str) ==
    LET name_len == Len(StringChars(str))
        enc == Ucs2Encode(str, name_len)
    IN <<enc[1], WriteAt0(NameVec(name_len), enc[2])>>

\* Lines 128-137: encode the name, allocate the default data buffer.
GetVariableBegin ==
    /\ gv_pc = "entry"
    /\ LET enc == EncodeName(gv_var.name)
       IN IF enc[1]
          THEN /\ name' = enc[2]
               /\ data' = Zeros(DefaultDataSize)
               /\ data_size' = DefaultDataSize
               /\ gv_pc' = "loop"
               /\ gv_result' = gv_result
          ELSE /\ gv_result' = Err("INVALID_PARAMETER")
               /\ gv_pc' = "done"
               /\ UNCHANGED <<name, data, data_size>>
    /\ attributes' = 0
    /\ UNCHANGED <<gv_var, gv_last, gv_calls, fw_var, fw_faulty, fw_shared>>
    /\ UNCHANGED gv_others

\* Mutant: every error status is retried.
GVRetries_AnyError(s) == IsError(s)

\* Mutant: there is no retry, BUFFER_TOO_SMALL is returned like any error.
GVRetries_Never(s) == FALSE

\* Whether the loop goes round again after status s (line 149 to 152).
GVRetries(s) == s = "BUFFER_TOO_SMALL"

\* Mutant: the buffer is resized one byte short of the reported size.
GVResizeTo_OneShort(reported) == reported - 1

\* The size the data buffer is given after BUFFER_TOO_SMALL (line 151).
GVResizeTo(reported) == reported

\* Mutant: the buffer is returned whole, not truncated.
GVPayload_NoTruncate(buf, size) == buf

\* The payload handed to the caller on SUCCESS (line 146).
GVPayload(buf, size) == Truncate(buf, size)

\* The result for a status that is neither SUCCESS nor BUFFER_TOO_SMALL (line 153).
GVOther(s) == Err(s)

\* Lines 141-155: one round of the loop, one firmware call.
GetVariableCall ==
    /\ gv_pc = "loop"
    /\ \E a \in FwGetVariable(fw_var, fw_faulty, data_size, attributes, data) :
        /\ gv_last' = [status |-> a.status, name |-> name, size_in |-> data_size,
                       buf_len |-> Len(data), size_out |-> a.size]
        /\ gv_calls' = Min(gv_calls + 1, MaxCalls)
        /\ data_size' = a.size
        /\ attributes' = a.attributes
        /\ IF a.status = "SUCCESS"
           THEN /\ data' = GVPayload(a.data, a.size)
                /\ gv_result' = Ok("SUCCESS", [data |-> data', attributes |-> a.attributes])
                /\ gv_pc' = "done"
           ELSE IF GVRetries(a.status)
           THEN /\ data' = Resize(a.data, GVResizeTo(a.size), 0)
                /\ gv_result' = gv_result
                /\ gv_pc' = "loop"
           ELSE /\ data' = a.data
                /\ gv_result' = GVOther(a.status)
                /\ gv_pc' = "done"
    /\ UNCHANGED <<gv_var, name, fw_var, fw_faulty, fw_shared>>
    /\ UNCHANGED gv_others

\* Another processor rewrites the variable while get_variable is in its loop
\* (the comment at lines 139-140).
FwOtherProcessorWrites ==
    /\ gv_pc = "loop"
    /\ fw_shared
    /\ \E v \in FwVars : v # fw_var /\ fw_var' = v
    /\ UNCHANGED <<gv_pc, gv_var, name, data, data_size, attributes, gv_result,
                   gv_last, gv_calls, fw_faulty, fw_shared>>
    /\ UNCHANGED gv_others

GVNext == GetVariableBegin \/ GetVariableCall \/ FwOtherProcessorWrites

-----------------------------------------------------------------------------
(* RuntimeServices::set_variable                                            *)

\* Status -> Result: SUCCESS and warnings give Ok with the status kept,
\* errors give Err.
StatusIntoResult(s) == IF IsError(s) THEN Err(s) ELSE Ok(s, "unit")

SetVariableArgs ==
    [name : NamePool, vendor : GuidPool, attributes : AttrPool,
     data : {<<>>, <<1, 2>>}]

SvOff ==
    /\ sv_pc = "off"
    /\ sv_args = [name |-> <<>>, vendor |-> "guid_a", attributes |-> 3, data |-> <<>>]
    /\ sv_call = None
    /\ sv_result = NoResult

\* The state at the call of set_variable(&self, variable, attributes, data).
SvInit ==
    /\ sv_pc = "entry"
    /\ sv_args \in SetVariableArgs
    /\ sv_call = None
    /\ sv_result = NoResult

\* The statuses the firmware's SetVariable answers with.
FwSetVariable == Statuses \ {"BUFFER_TOO_SMALL"}

\* set_variable (lines 160-169), the whole call.
SetVariable ==
    /\ sv_pc = "entry"
    /\ sv_pc' = "done"
    /\ LET enc == EncodeName(sv_args.name)
       IN IF enc[1]
          THEN \E s \in FwSetVariable :
                  /\ sv_call' = Some([name |-> enc[2], vendor |-> sv_args.vendor,
                                      attributes |-> sv_args.attributes,
                                      data_size |-> Len(sv_args.data),
                                      data |-> sv_args.data])
                  /\ sv_result' = StatusIntoResult(s)
          ELSE /\ sv_call' = None
               /\ sv_result' = Err("INVALID_PARAMETER")
    /\ UNCHANGED sv_args
    /\ UNCHANGED sv_others

SvNext == SetVariable

\* get_variable's own steps are taken as long as they are enabled: the
\* function runs to its return.
GVFair == WF_vars(GetVariableBegin) /\ WF_vars(GetVariableCall)

-----------------------------------------------------------------------------
(* Claims about get_variable.                                              *)

\* The firmware of the size-discovery contract: a fixed value, the contract's
\* answers only.
GVContractFirmware == ~fw_faulty /\ ~fw_shared

GVTerminalStatus(s) == s \notin {"NONE", "SUCCESS", "BUFFER_TOO_SMALL"}

\* C1: against a firmware that answers BUFFER_TOO_SMALL with the required size
\* N to every buffer shorter than N and SUCCESS otherwise, the retry loop of
\* get_variable reaches SUCCESS, and the buffer of the successful call is at
\* least N long.
C1_RetryLoopTerminates ==
    (gv_pc = "loop" /\ GVContractFirmware)
        ~> (/\ gv_pc = "done"
            /\ gv_result.kind = "Ok"
            /\ gv_last.status = "SUCCESS"
            /\ gv_last.buf_len >= fw_var.len)

\* C1 witness: a value longer than the default buffer was read by a second call.
C1_Witness ==
    /\ gv_pc = "done"
    /\ GVContractFirmware
    /\ gv_calls = 2
    /\ gv_last.status = "SUCCESS"
    /\ fw_var.len > DefaultDataSize
    /\ gv_last.buf_len >= fw_var.len

\* C2: when the firmware call returns SUCCESS with length L, get_variable
\* returns Ok with a payload of exactly L bytes, the first L bytes the call
\* wrote, and the attributes the call wrote.
C2_SuccessPayload ==
    gv_last.status = "SUCCESS" =>
        /\ gv_pc = "done"
        /\ gv_result.kind = "Ok"
        /\ gv_result.status = "SUCCESS"
        /\ Len(gv_result.value) = 1
        /\ Len(gv_result.value[1].data) = gv_last.size_out
        /\ gv_result.value[1].data = SubSeq(ValueBytes(fw_var), 1, gv_last.size_out)
        /\ gv_result.value[1].attributes = fw_var.attrs

\* C2 witness: the first call succeeded with fewer bytes than the 64 supplied.
C2_Witness ==
    /\ gv_pc = "done"
    /\ gv_calls = 1
    /\ gv_last.status = "SUCCESS"
    /\ gv_last.buf_len = DefaultDataSize
    /\ gv_last.size_out > 0
    /\ gv_last.size_out < DefaultDataSize
    /\ Len(gv_result.value[1].data) = gv_last.size_out

\* C3: a status other than SUCCESS and BUFFER_TOO_SMALL ends get_variable at
\* once: the result is Err with exactly that status and no value, and no
\* further firmware call can be made.
C3_OtherStatusPropagates ==
    GVTerminalStatus(gv_last.status) =>
        /\ gv_pc = "done"
        /\ gv_result = [kind |-> "Err", status |-> gv_last.status, value |-> None]
        /\ ~ENABLED GetVariableCall

\* C3 witness: DEVICE_ERROR came on the call after a resize, and was returned.
C3_Witness ==
    /\ gv_pc = "done"
    /\ gv_calls = 2
    /\ gv_last.status = "DEVICE_ERROR"
    /\ gv_result.kind = "Err"
    /\ gv_result.status = "DEVICE_ERROR"

\* C4: a warning status from the firmware call gives a successful result that
\* carries the value and the warning code, never an error without a value.
C4_WarningCarriesValue ==
    (gv_pc = "done" /\ IsWarning(gv_last.status)) =>
        /\ gv_result.kind = "Ok"
        /\ gv_result.status = gv_last.status
        /\ gv_result.value # None

\* C11: with another processor changing the stored variable between the
\* attempts, a successful return carries the whole value the firmware held at
\* the successful call, and a BUFFER_TOO_SMALL answer (the value grew, also
\* after a resize) leads to another round with a buffer of the reported size,
\* never to a short result.
C11_CompleteValueUnderWrites ==
    (fw_shared /\ ~fw_faulty) =>
        /\ gv_last.status = "SUCCESS" =>
              /\ gv_result.kind = "Ok"
              /\ Len(gv_result.value) = 1
              /\ gv_result.value[1].data = ValueBytes(fw_var)
              /\ gv_result.value[1].attributes = fw_var.attrs
        /\ gv_last.status = "BUFFER_TOO_SMALL" =>
              /\ gv_pc = "loop"
              /\ gv_result = NoResult
              /\ Len(data) = gv_last.size_out
        /\ gv_pc = "done" => gv_result.kind # "Ok" \/ gv_last.status = "SUCCESS"

\* C11 witness: the value grew after the buffer had been resized; a third call
\* returned the whole of it.
C11_Witness ==
    /\ fw_shared
    /\ ~fw_faulty
    /\ gv_pc = "done"
    /\ gv_calls >= 3
    /\ gv_last.status = "SUCCESS"
    /\ gv_last.buf_len = MaxDataSize
    /\ gv_result.value[1].data = ValueBytes(fw_var)
    /\ fw_var.len = MaxDataSize

\* The name as the firmware must receive it: one unit per char, then 0.
WireName(str) == StringChars(str) \o <<0>>
\* Whether every char of the name fits one 16-bit unit.
FitsUcs2(str) == \A i \in 1..Len(StringChars(str)) : StringChars(str)[i] <= 65535

\* C12: whenever get_variable or set_variable invokes the firmware, the name
\* passed is one 16-bit unit per character of variable.name followed by a 0
\* unit; when a character is above U+FFFF the operation returns
\* Err(INVALID_PARAMETER) and the firmware function is never invoked.
C12_NameOnTheWire ==
    /\ gv_last # NoCall =>
          FitsUcs2(gv_var.name) /\ gv_last.name = WireName(gv_var.name)
    /\ (gv_pc = "done" /\ ~FitsUcs2(gv_var.name)) =>
          gv_last = NoCall /\ gv_calls = 0 /\ gv_result = Err("INVALID_PARAMETER")
    /\ sv_call # None =>
          FitsUcs2(sv_args.name) /\ sv_call[1].name = WireName(sv_args.name)
    /\ (sv_pc = "done" /\ ~FitsUcs2(sv_args.name)) =>
          sv_call = None /\ sv_result = Err("INVALID_PARAMETER")
    /\ (sv_pc = "done" /\ FitsUcs2(sv_args.name)) => sv_call # None
    /\ (gv_pc = "done" /\ FitsUcs2(gv_var.name)) => gv_last # NoCall

\* C12 witness: set_variable passed the two character name as U+00E9, U+20AC
\* and the terminating 0.
C12_Witness ==
    /\ sv_pc = "done"
    /\ sv_args.name = <<195, 169, 226, 130, 172>>
    /\ sv_call # None
    /\ sv_call[1].name = <<233, 8364, 0>>

\* C15: at every firmware call of get_variable the data_size passed in is the
\* length of the data buffer passed with it, whatever sizes the firmware
\* reported before; the same holds of the call get_variable is about to make.
C15_SizeArgumentIsBufferLength ==
    /\ gv_last # NoCall => gv_last.size_in = gv_last.buf_len
    /\ gv_pc = "loop" => data_size = Len(data)

\* C15 witness: a call was made with a buffer shrunk below the default size,
\* after the firmware had reported a smaller size with BUFFER_TOO_SMALL.
C15_Witness ==
    /\ gv_calls >= 2
    /\ gv_last.buf_len > 0
    /\ gv_last.buf_len < DefaultDataSize
    /\ gv_last.size_in = gv_last.buf_len

-----------------------------------------------------------------------------
(* The firmware's variable enumeration, GetNextVariableName().             *)

\* The name buffer a fresh iterator allocates, in 16-bit units.
InitialNameCap == 32

\* The shortest name that does not fit the firmware's view of that buffer
\* (InitialNameCap bytes, the terminator included).
LongNameLen == InitialNameCap \div 2

\* Names are at most LongNameLen + MaxNameExtra units long.
MaxNameExtra == 1
\* The store holds at most MaxStored variables.
MaxStored == 3
\* A faulty firmware departs from the contract at most MaxFaults times.
MaxFaults == 2

LongName(n) == [i \in 1..n |-> IF i = n THEN 8364 ELSE 66]

\* The units at the ends of the one, two and three byte ranges of UTF-8, with
\* a surrogate unit among them.
BoundaryUnits == <<127, 128, 2047, 2048, 55296, 65535>>

\* "A" under two vendors, the boundary units, and names too long for the
\* initial buffer.
EnumEntries ==
    {[name |-> <<65>>, guid |-> "guid_a"], [name |-> <<65>>, guid |-> "guid_b"],
     [name |-> BoundaryUnits, guid |-> "guid_a"]}
    \cup {[name |-> LongName(n), guid |-> "guid_b"] :
             n \in LongNameLen..(LongNameLen + MaxNameExtra)}

\* Whether the entries of a store are pairwise different.
Distinct(st) == \A i, j \in 1..Len(st) : st[i] = st[j] => i = j

Stores ==
    UNION {{st \in [1..k -> EnumEntries] : Distinct(st)} : k \in 0..MaxStored}

\* The sizes a faulty firmware reports with BUFFER_TOO_SMALL, in bytes.
EnumFaultSizes == {0, 2 * (LongNameLen + MaxNameExtra + 2)}

\* The units before the first 0 unit (all of them when there is none).
UnitsBeforeNul(buf) ==
    IF \E i \in 1..Len(buf) : buf[i] = 0
    THEN SubSeq(buf, 1, (CHOOSE i \in 1..Len(buf) :
                            buf[i] = 0 /\ \A j \in 1..(i - 1) : buf[j] # 0) - 1)
    ELSE buf

EnumAnswer(s, size, buf, g) == [status |-> s, size |-> size, name |-> buf, guid |-> g]

\* The position in the store of the entry after the cursor: 1 for the empty
\* name, 0 when the cursor names no stored variable.
EnumPosAfter(store, cur_name, cur_guid) ==
    IF cur_name = <<>> THEN 1
    ELSE IF \E i \in 1..Len(store) : store[i] = [name |-> cur_name, guid |-> cur_guid]
    THEN (CHOOSE i \in 1..Len(store) :
              store[i] = [name |-> cur_name, guid |-> cur_guid]) + 1
    ELSE 0

\* EFI_RUNTIME_SERVICES.GetNextVariableName() per the UEFI contract.  size_in
\* is *VariableNameSize, a size in bytes; the cursor is the 0-terminated name
\* in the first size_in bytes of the buffer, and the GUID.
FwGetNextVariableNameContract(store, size_in, buf, g) ==
    LET seen == SubSeq(buf, 1, Min(size_in \div 2, Len(buf)))
        cur == UnitsBeforeNul(seen)
        pos == EnumPosAfter(store, cur, g)
    IN IF Len(cur) = Len(seen) \/ pos = 0
       THEN EnumAnswer("INVALID_PARAMETER", size_in, buf, g)
       ELSE IF pos > Len(store)
       THEN EnumAnswer("NOT_FOUND", size_in, buf, g)
       ELSE LET nxt == store[pos]
                need == 2 * (Len(nxt.name) + 1)
            IN IF size_in < need
               THEN EnumAnswer("BUFFER_TOO_SMALL", need, buf, g)
               ELSE EnumAnswer("SUCCESS", need, WriteAt0(buf, nxt.name \o <<0>>), nxt.guid)

\* A faulty or failing firmware: any error status, BUFFER_TOO_SMALL with any
\* size (as when the next name grows between two calls), or a warning.
FwGetNextVariableNameFaults(size_in, buf, g) ==
    {EnumAnswer(s, size_in, buf, g) : s \in {"WARN_UNKNOWN_GLYPH", "DEVICE_ERROR", "INVALID_PARAMETER"}}
    \cup {EnumAnswer("BUFFER_TOO_SMALL", n, buf, g) : n \in EnumFaultSizes}

\* The answers to one call, each with the fault budget it leaves.
FwGetNextVariableName(store, faults, size_in, buf, g) ==
    {[ans |-> FwGetNextVariableNameContract(store, size_in, buf, g), faults |-> faults]}
    \cup (IF faults > 0
          THEN {[ans |-> a, faults |-> faults - 1] :
                   a \in FwGetNextVariableNameFaults(size_in, buf, g)}
          ELSE {})

-----------------------------------------------------------------------------
(* VariablesIterator                                                       *)

\* RuntimeServices::get_next_variable_name: the buffer's length in units is
\* passed as the size; returns the answer, (status, buf_len) and the writes.
GetNextVariableName(store, faults, buf, g) ==
    FwGetNextVariableName(store, faults, Len(buf), buf, g)

NoReturn == [kind |-> "none", var |-> None]
ReturnSome(v) == [kind |-> "Some", var |-> Some(v)]
ReturnNone == [kind |-> "None", var |-> None]
Panicked == [kind |-> "panic", var |-> None]

\* Variable::new(name, vendor); the name is a String, held as its UTF-8 bytes.
VariableNew(n, g) == [name |-> n, vendor |-> g]

ZeroGuid == "guid_0"

ItOff ==
    /\ it_pc = "off"
    /\ buffer = <<>>
    /\ guid = ZeroGuid
    /\ it_ret = NoReturn
    /\ it_last = <<>>
    /\ it_yielded = <<>>
    /\ it_nexts = 0
    /\ fw_store = <<>>
    /\ fw_enum_faults = 0
    /\ it_contract = TRUE

\* VariablesIterator::new (lines 225-231), over some firmware store.
ItInit ==
    /\ it_pc = "iter"
    /\ buffer = Zeros(InitialNameCap)
    /\ guid = ZeroGuid
    /\ it_ret = NoReturn
    /\ it_last = <<>>
    /\ it_yielded = <<>>
    /\ it_nexts = 0
    /\ fw_store \in Stores
    /\ fw_enum_faults \in {0, MaxFaults}
    /\ it_contract = (fw_enum_faults = 0)

\* Mutant: the name buffer is resized one unit short of the reported size.
ItResizeTo_OneShort(len) == len - 1

\* The length the name buffer is given after BUFFER_TOO_SMALL (line 245).
ItResizeTo(len) == len

\* Whether the status of the first call lets next() go on to decode (line 239).
ItFirstOk(s) == s = "SUCCESS"

\* Whether the status of the call after the resize is fatal (line 248).
ItSecondFatal(s) == IsError(s)

\* Mutant: two bytes of scratch for each unit.
ItUtf8Cap_Two(name_len) == name_len * 2

\* vec![0u8; name_len * 3] (line 262)
ItUtf8Cap(name_len) == name_len * 3

\* Lines 255-271: decode the name in the buffer and build the Variable;
\* <<ok, variable>>, not ok when the decoding fails (expect panics).
ItDecode(buf, g) ==
    LET units == UnitsBeforeNul(buf)
        dec == Ucs2Decode(units, ItUtf8Cap(Len(units)))
    IN <<dec[1], VariableNew(dec[2], g)>>

\* The end of next() once a call left a name in the buffer.
ItYield(buf, g, statuses) ==
    LET d == ItDecode(buf, g)
    IN /\ buffer' = buf
       /\ guid' = g
       /\ it_last' = statuses
       /\ IF d[1]
          THEN /\ it_ret' = ReturnSome(d[2])
               /\ it_yielded' = Append(it_yielded, d[2])
               /\ it_pc' = "iter"
          ELSE /\ it_ret' = Panicked
               /\ it_yielded' = it_yielded
               /\ it_pc' = "panicked"

\* Iterator::next (lines 237-272), the whole call.
IteratorNext ==
    /\ it_pc = "iter"
    /\ it_nexts < MaxStored + 2
    /\ it_nexts' = it_nexts + 1
    /\ \E r1 \in GetNextVariableName(fw_store, fw_enum_faults, buffer, guid) :
        LET a == r1.ans
        IN IF ItFirstOk(a.status)
           THEN ItYield(a.name, a.guid, <<a.status>>) /\ fw_enum_faults' = r1.faults
           ELSE IF a.status = "BUFFER_TOO_SMALL"
           THEN LET resized == Resize(a.name, ItResizeTo(a.size), 0)
                IN \E r2 \in GetNextVariableName(fw_store, r1.faults, resized, a.guid) :
                    LET b == r2.ans
                    IN /\ fw_enum_faults' = r2.faults
                       /\ IF ItSecondFatal(b.status)
                          THEN /\ it_ret' = Panicked
                               /\ it_pc' = "panicked"
                               /\ buffer' = b.name
                               /\ guid' = b.guid
                               /\ it_last' = <<a.status, b.status>>
                               /\ it_yielded' = it_yielded
                          ELSE ItYield(b.name, b.guid, <<a.status, b.status>>)
           ELSE /\ it_ret' = ReturnNone
                /\ it_pc' = "iter"
                /\ buffer' = a.name
                /\ guid' = a.guid
                /\ it_last' = <<a.status>>
                /\ it_yielded' = it_yielded
                /\ fw_enum_faults' = r1.faults
    /\ UNCHANGED <<fw_store, it_contract>>
    /\ UNCHANGED it_others

ItNext == IteratorNext

-----------------------------------------------------------------------------
(* Claims about VariablesIterator.                                         *)

\* The yielded Variable names the stored entry: same characters, same GUID.
SameVariable(v, e) == StringChars(v.name) = e.name /\ v.vendor = e.guid

\* C5: against a store of K variables enumerated by the contract (SUCCESS for
\* each entry after the cursor, then NOT_FOUND), the first K calls of next()
\* yield the K variables in the firmware's order, each with its name and
\* GUID, none skipped or repeated, and every later call returns None; no call
\* panics, also when a name first needs a resize.
C5_YieldsStoreInOrder ==
    (it_pc # "off" /\ it_contract) =>
        /\ it_pc = "iter"
        /\ Len(it_yielded) = Min(it_nexts, Len(fw_store))
        /\ \A i \in 1..Len(it_yielded) : SameVariable(it_yielded[i], fw_store[i])
        /\ (it_nexts > 0 /\ it_nexts <= Len(fw_store)) =>
              it_ret = ReturnSome(it_yielded[it_nexts])
        /\ it_nexts > Len(fw_store) => it_ret = ReturnNone

\* C5 witness: three variables were yielded, one of them after a resize of the
\* name buffer, and the next call returned None.
C5_Witness ==
    /\ it_contract
    /\ Len(fw_store) = MaxStored
    /\ Len(it_yielded) = MaxStored
    /\ it_ret = ReturnNone
    /\ Len(buffer) > InitialNameCap
    /\ Len(fw_store[2].name) >= LongNameLen
    /\ \A i \in 1..MaxStored : SameVariable(it_yielded[i], fw_store[i])

\* C14: the 3*n bytes of UTF-8 scratch are enough for a name of n units
\* (n = units before the first 0 in the buffer) whatever the unit values: the
\* decode step never panics, so next() panics only on an error status of the
\* call after a resize, and the yielded name has exactly n characters.
C14_DecodeNeverLacksSpace ==
    /\ it_ret.kind = "Some" =>
          Len(StringChars(it_ret.var[1].name)) = Len(UnitsBeforeNul(buffer))
    /\ it_ret = Panicked => Len(it_last) = 2 /\ IsError(it_last[2])

\* C14 witness: a name made only of three byte units, and the name of the
\* boundary units, were yielded.
C14_Witness ==
    /\ it_ret.kind = "Some"
    /\ UnitsBeforeNul(buffer) = BoundaryUnits
    /\ Len(it_ret.var[1].name) = 1 + 2 + 2 + 3 + 3 + 3
    /\ Len(StringChars(it_ret.var[1].name)) = Len(BoundaryUnits)

\* C17: next() yields a Variable only when the enumeration call that last
\* wrote the name buffer returned SUCCESS, on the first attempt and on the
\* attempt after a resize alike.
C17_YieldOnlyAfterSuccess ==
    it_ret.kind = "Some" => it_last[Len(it_last)] = "SUCCESS"

\* C6: an error status of the enumeration call other than NOT_FOUND and
\* BUFFER_TOO_SMALL makes next() panic; next() never returns None for it.
C6_OtherErrorsPanic ==
    (\E i \in 1..Len(it_last) :
        IsError(it_last[i]) /\ it_last[i] \notin {"NOT_FOUND", "BUFFER_TOO_SMALL"})
    => it_ret = Panicked

\* C7: within one next(), every BUFFER_TOO_SMALL is followed by a resize and
\* another call: the last call of a next() never reported BUFFER_TOO_SMALL,
\* and BUFFER_TOO_SMALL never makes next() panic.
C7_BufferTooSmallAbsorbed ==
    it_last # <<>> =>
        /\ it_last[Len(it_last)] # "BUFFER_TOO_SMALL"
        /\ (\A i \in 1..Len(it_last) : it_last[i] \in {"BUFFER_TOO_SMALL", "SUCCESS"})
              => it_ret.kind = "Some"

-----------------------------------------------------------------------------
(* Device paths: DevicePath::is_end and DevicePath::next_node.             *)

\* DevicePathType::MEDIA, DevicePathType::END_OF_HARDWARE
MEDIA == 4
END_OF_HARDWARE == 127
\* EndSubType::END_INSTANCE, EndSubType::END_ENTIRE
END_INSTANCE == 1
END_ENTIRE == 255

\* size_of::<DevicePath>(): path_type (u8), sub_type (u8), length (u16)
HeaderSize == 4

\* A chain has at most MaxNodes nodes.
MaxNodes == 3

\* Node lengths: the bare header, a short payload, and one whose length needs
\* the high byte of the u16.
NodeLengths == {HeaderSize, HeaderSize + 2, 256 + HeaderSize}

NodeHeaders ==
    [path_type : {MEDIA, END_OF_HARDWARE}, sub_type : {END_INSTANCE, END_ENTIRE},
     length : NodeLengths]

EndPair(h) == h.path_type = END_OF_HARDWARE /\ h.sub_type = END_ENTIRE

\* The chains of the traversal's precondition: the last node, and only the
\* last, is END_OF_HARDWARE / END_ENTIRE.
Chains ==
    UNION {{c \in [1..n -> NodeHeaders] :
                /\ EndPair(c[n])
                /\ \A i \in 1..(n - 1) : ~EndPair(c[i])} : n \in 1..MaxNodes}

\* The payload after a header: bytes that read as an END_ENTIRE header of
\* length 4, so that a misplaced read is taken for the end of the path.
Payload(n) ==
    [j \in 1..n |-> CASE j % 4 = 1 -> END_OF_HARDWARE
                      [] j % 4 = 2 -> END_ENTIRE
                      [] j % 4 = 3 -> HeaderSize
                      [] OTHER -> 0]

\* repr(C) layout of one node, little endian: type, sub-type, length, payload.
NodeBytes(h) ==
    <<h.path_type, h.sub_type, h.length % 256, h.length \div 256>>
    \o Payload(h.length - HeaderSize)

\* The nodes of a chain laid out one after the other.
RECURSIVE Layout(_)
Layout(c) == IF c = <<>> THEN <<>> ELSE NodeBytes(Head(c)) \o Layout(Tail(c))

\* The byte offset of the k-th node of a chain.
RECURSIVE NodeOffset(_, _)
NodeOffset(c, k) == IF k <= 1 THEN 0 ELSE c[1].length + NodeOffset(Tail(c), k - 1)

\* The fields of the node at byte offset off (memory is a sequence, offset 0
\* is its first byte).
PathType(mem, off) == mem[off + 1]
SubType(mem, off) == mem[off + 2]
Length(mem, off) == mem[off + 3] + 256 * mem[off + 4]

\* DevicePath::is_end
IsEnd(mem, off) ==
    PathType(mem, off) = END_OF_HARDWARE /\ SubType(mem, off) = END_ENTIRE

\* Mutant: the next node is taken to follow the header.
NextNode_SkipsHeaderOnly(mem, off) == off + HeaderSize

\* DevicePath::next_node: the address self.length bytes after this node's
NextNode(mem, off) == off + Length(mem, off)

DpOff ==
    /\ dp_pc = "off"
    /\ dp_chain = <<>>
    /\ dp_mem = <<>>
    /\ dp_node = 0
    /\ dp_steps = 0

\* A device path in memory, and a reference to its first node.
DpInit ==
    /\ dp_pc = "walk"
    /\ dp_chain \in Chains
    /\ dp_mem = Layout(dp_chain)
    /\ dp_node = 0
    /\ dp_steps = 0

\* The caller's traversal: while !node.is_end() { node = node.next_node() }
DevicePathStep ==
    /\ dp_pc = "walk"
    /\ ~IsEnd(dp_mem, dp_node)
    /\ dp_node' = NextNode(dp_mem, dp_node)
    /\ dp_steps' = dp_steps + 1
    /\ UNCHANGED <<dp_pc, dp_chain, dp_mem>>
    /\ UNCHANGED dp_others

DpNext == DevicePathStep

\* C8: on a contiguous chain of n nodes of length >= 4 whose last node, and no
\* earlier one, is END_OF_HARDWARE / END_ENTIRE, next_node from the first node
\* lands on each node in order, is_end is false on the n-1 nodes before the
\* last (END_INSTANCE nodes included) and true on the last, reached in n-1
\* steps.
C8_TraversalVisitsEveryNode ==
    dp_pc = "walk" =>
        /\ dp_steps < Len(dp_chain)
        /\ dp_node = NodeOffset(dp_chain, dp_steps + 1)
        /\ IsEnd(dp_mem, dp_node) <=> (dp_steps = Len(dp_chain) - 1)

\* C8 witness: the end of a three node chain was reached in two steps, over a
\* node longer than 255 bytes and an END_INSTANCE node.
C8_Witness ==
    /\ dp_pc = "walk"
    /\ Len(dp_chain) = 3
    /\ dp_steps = 2
    /\ IsEnd(dp_mem, dp_node)
    /\ dp_chain[1].length > 255
    /\ dp_chain[2].path_type = END_OF_HARDWARE
    /\ dp_chain[2].sub_type = END_INSTANCE
    /\ dp_chain[2].length > HeaderSize

-----------------------------------------------------------------------------
(* Time::new                                                               *)

\* The arguments tried: each field at and around the ends of its range.
TimeArgs ==
    [year : {1899, 1900, 9999, 10000}, month : {0, 1, 12, 13}, day : {0, 1, 31, 32},
     hour : {0, 23, 24}, minute : {59, 60}, second : {59, 60},
     nanosecond : {999999999, 1000000000},
     time_zone : {-1441, -1440, 1440, 1441, 1500, 2047, 2048},
     daylight : {0, 3}]

\* Mutant: an hour of 24 passes.
TimeAsserts_Hour24(a) ==
    /\ a.year >= 1900 /\ a.year <= 9999
    /\ a.month >= 1 /\ a.month <= 12
    /\ a.day >= 1 /\ a.day <= 31
    /\ a.hour <= 24
    /\ a.minute <= 59
    /\ a.second <= 59
    /\ a.nanosecond <= 999999999
    /\ (a.time_zone >= -1440 /\ a.time_zone <= 1440) \/ a.time_zone = 2047

\* The assertions of Time::new (lines 316-323), all of them passing.
TimeAsserts(a) ==
    /\ a.year >= 1900 /\ a.year <= 9999
    /\ a.month >= 1 /\ a.month <= 12
    /\ a.day >= 1 /\ a.day <= 31
    /\ a.hour <= 23
    /\ a.minute <= 59
    /\ a.second <= 59
    /\ a.nanosecond <= 999999999
    /\ (a.time_zone >= -1440 /\ a.time_zone <= 1440) \/ a.time_zone = 2047

\* The struct literal of Time::new (lines 324-336).
TimeStruct(a) ==
    [year |-> a.year, month |-> a.month, day |-> a.day, hour |-> a.hour,
     minute |-> a.minute, second |-> a.second, pad1 |-> 0,
     nanosecond |-> a.nanosecond, time_zone |-> a.time_zone,
     daylight |-> a.daylight, pad2 |-> 0]

NoTimeArgs ==
    [year |-> 1900, month |-> 1, day |-> 1, hour |-> 0, minute |-> 0, second |-> 0,
     nanosecond |-> 0, time_zone |-> 0, daylight |-> 0]

TmOff ==
    /\ tm_pc = "off"
    /\ tm_args = NoTimeArgs
    /\ tm_out = None

TmInit ==
    /\ tm_pc = "call"
    /\ tm_args \in TimeArgs
    /\ tm_out = None

\* Time::new(year, month, ...): a Time, or a panic from a failed assertion.
TimeNew ==
    /\ tm_pc = "call"
    /\ IF TimeAsserts(tm_args)
       THEN tm_pc' = "returned" /\ tm_out' = Some(TimeStruct(tm_args))
       ELSE tm_pc' = "panicked" /\ tm_out' = None
    /\ UNCHANGED tm_args
    /\ UNCHANGED tm_others

TmNext == TimeNew

\* C9: Time::new accepts exactly when year is in 1900..9999, month in 1..12,
\* day in 1..31, hour in 0..23, minute in 0..59, second in 0..59, nanosecond
\* in 0..999999999 and time_zone in -1440..1440 or 2047; otherwise it panics
\* and produces no Time; an accepted Time stores every field unchanged and
\* has both padding bytes 0.
C9_TimeNewRanges ==
    tm_pc \in {"returned", "panicked"} =>
        LET a == tm_args
            in_range ==
                /\ a.year \in 1900..9999
                /\ a.month \in 1..12
                /\ a.day \in 1..31
                /\ a.hour \in 0..23
                /\ a.minute \in 0..59
                /\ a.second \in 0..59
                /\ a.nanosecond \in 0..999999999
                /\ (a.time_zone \in -1440..1440 \/ a.time_zone = 2047)
        IN /\ (tm_pc = "returned") <=> in_range
           /\ tm_pc = "panicked" => tm_out = None
           /\ tm_pc = "returned" =>
                /\ Len(tm_out) = 1
                /\ \A f \in DOMAIN a : tm_out[1][f] = a[f]
                /\ tm_out[1].pad1 = 0
                /\ tm_out[1].pad2 = 0

\* C9 witness: a Time at the upper end of every range, time zone unspecified.
C9_Witness ==
    /\ tm_pc = "returned"
    /\ tm_out # None
    /\ tm_args.year = 9999
    /\ tm_args.month = 12
    /\ tm_args.hour = 23
    /\ tm_args.nanosecond = 999999999
    /\ tm_args.time_zone = 2047

-----------------------------------------------------------------------------
(* The LoadedImage protocol view.                                          *)

Handles == {"handle_1", "handle_2"}
MemoryTypes == {"LOADER_CODE", "LOADER_DATA", "BOOT_SERVICES_DATA"}

\* A usize of a 64-bit target as two 32-bit limbs, hi * 2^32 + lo.
Usize(hi, lo) == [hi |-> hi, lo |-> lo]
\* A u32 widened to usize.
UsizeOf(n) == Usize(0, n)

\* Mutant: the cast keeps the high limb's value.
AsU32_Saturating(n) == n.hi + n.lo

\* `len as u32` (line 102): the low 32 bits.
AsU32(n) == n.lo

\* The memory around the load options, byte by byte from MemBase on: the
\* firmware's own load options "a" (terminated), a caller's buffer holding
\* "hi" with its terminator, a caller's buffer holding "hi" without one, the
\* bytes that happen to follow it, and the start of a caller's buffer of more
\* than 4 GiB.
MemBase == 8
FwOptions == [addr |-> 8, len |-> Usize(0, 4)]
BufTerminated == [addr |-> 16, len |-> Usize(0, 6)]
BufUnterminated == [addr |-> 24, len |-> Usize(0, 4)]
BufHuge == [addr |-> 32, len |-> Usize(1, 4)]
CallerBuffers == {BufTerminated, BufUnterminated, BufHuge}

\* What may lie behind the unterminated buffer: a zero unit, the unit "!",
\* a surrogate unit, or no zero unit before the next buffer.
Neighbours == {<<0, 0, 0, 0>>, <<33, 0, 0, 0>>, <<0, 216, 0, 0>>, <<33, 0, 33, 0>>}

Memory(nb) ==
    <<97, 0, 0, 0, 0, 0, 0, 0>>
    \o <<104, 0, 105, 0, 0, 0, 0, 0>>
    \o <<104, 0, 105, 0>> \o nb
    \o <<120, 0, 0, 0>>

ByteAt(mem, a) == mem[a - MemBase + 1]
\* A 16-bit unit read from memory (little-endian).
U16At(mem, a) == ByteAt(mem, a) + 256 * ByteAt(mem, a + 1)

\* CStr16::from_ptr(ptr).to_u16_slice(): the units from ptr up to the first
\* zero unit, which is found by reading on from ptr.
RECURSIVE CStr16FromPtr(_, _)
CStr16FromPtr(mem, a) ==
    IF U16At(mem, a) = 0 THEN <<>>
    ELSE <<U16At(mem, a)>> \o CStr16FromPtr(mem, a + 2)

\* The bytes from_ptr reads: the units and the terminating zero unit.
CStr16BytesRead(mem, a) == 2 * (Len(CStr16FromPtr(mem, a)) + 1)

\* core::str::from_utf8: whether the bytes are UTF-8 (sequences of up to three
\* bytes; an encoded surrogate is not UTF-8).
RECURSIVE Utf8Valid(_)
Utf8Valid(bytes) ==
    IF bytes = <<>> THEN TRUE
    ELSE LET b == bytes[1]
             n == IF b < 128 THEN 1 ELSE IF b < 224 THEN 2 ELSE 3
             cont(i) == bytes[i] >= 128 /\ bytes[i] < 192
         IN /\ b < 128 \/ (b >= 194 /\ b < 240)
            /\ Len(bytes) >= n
            /\ \A i \in 2..n : cont(i)
            /\ b = 224 => bytes[2] >= 160
            /\ b = 237 => bytes[2] < 160
            /\ Utf8Valid(SubSeq(bytes, n + 1, Len(bytes)))

\* The fields of the table.
LoadedImages ==
    [revision : {4096}, parent_handle : Handles, system_table : {256},
     device_handle : Handles, file_path : {0, 64}, reserved : {0},
     load_options_size : {AsU32(FwOptions.len)}, load_options : {FwOptions.addr},
     image_base : {4096, 8192}, image_size : {512, 1024},
     image_code_type : MemoryTypes, image_data_type : MemoryTypes,
     unload : {512}]

NoGetter == [op |-> "none", value |-> None]
Returned(op, v) == [op |-> op, value |-> Some(v)]

\* The operation called last, with its argument.
NoOp == [op |-> "none", arg |-> None]
Called(op, arg) == [op |-> op, arg |-> arg]
\* The memory load_options read last.
NoRead == [from |-> 0, len |-> 0]

LiOff ==
    /\ li_pc = "off"
    /\ li = [revision |-> 4096, parent_handle |-> "handle_1", system_table |-> 256,
             device_handle |-> "handle_1", file_path |-> 0, reserved |-> 0,
             load_options_size |-> 0, load_options |-> 0,
             image_base |-> 4096, image_size |-> 512,
             image_code_type |-> "LOADER_CODE", image_data_type |-> "LOADER_CODE",
             unload |-> 512]
    /\ li_ret = NoGetter
    /\ li_call = NoOp
    /\ li_read = NoRead
    /\ li_mem = <<>>

LiInit ==
    /\ li_pc = "open"
    /\ li \in LoadedImages
    /\ li_ret = NoGetter
    /\ li_call = NoOp
    /\ li_read = NoRead
    /\ li_mem \in {Memory(nb) : nb \in Neighbours}

\* LoadedImage::parent_handle
ParentHandle(img) == img.parent_handle
\* LoadedImage::device_handle
DeviceHandle(img) == img.device_handle
\* LoadedImage::file_path: None for a null pointer, else the path it points to
FilePath(img) == IF img.file_path = 0 THEN None ELSE Some(img.file_path)
\* LoadedImage::image_base
ImageBase(img) == img.image_base
\* LoadedImage::image_size
ImageSize(img) == img.image_size
\* LoadedImage::image_code_type
ImageCodeType(img) == img.image_code_type
\* LoadedImage::image_data_type (line 92 reads self.image_code_type)
ImageDataType(img) == img.image_code_type

Getter(op, v) ==
    /\ li_pc = "open"
    /\ li_ret' = Returned(op, v)
    /\ li_call' = Called(op, None)
    /\ UNCHANGED <<li_pc, li, li_read, li_mem>>
    /\ UNCHANGED li_others

GetParentHandle == Getter("parent_handle", ParentHandle(li))
GetDeviceHandle == Getter("device_handle", DeviceHandle(li))
GetFilePath == Getter("file_path", FilePath(li))
GetImageBase == Getter("image_base", ImageBase(li))
GetImageSize == Getter("image_size", ImageSize(li))
GetImageCodeType == Getter("image_code_type", ImageCodeType(li))
GetImageDataType == Getter("image_data_type", ImageDataType(li))

\* The lengths of the buffer the caller hands to load_options.
OutLens == {0, 2, 8}

\* LoadedImage::load_options (lines 68-73): the value returned for the table
\* `img` over memory `mem` with an output buffer of `cap` bytes.
LoadOptions(img, mem, cap) ==
    LET ucs2_slice == CStr16FromPtr(mem, img.load_options)
        dec == Ucs2Decode(ucs2_slice, cap)
    IN IF ~dec[1] THEN [kind |-> "Err", error |-> "BufferTooSmall"]
       ELSE IF ~Utf8Valid(dec[2]) THEN [kind |-> "Err", error |-> "NotValidUtf8"]
       ELSE [kind |-> "Ok", str |-> dec[2]]

\* LoadedImage::load_options, the whole call.
GetLoadOptions ==
    /\ li_pc = "open"
    /\ \E cap \in OutLens :
          /\ li_ret' = Returned("load_options", LoadOptions(li, li_mem, cap))
          /\ li_call' = Called("load_options", cap)
    /\ li_read' = [from |-> li.load_options,
                   len |-> CStr16BytesRead(li_mem, li.load_options)]
    /\ UNCHANGED <<li_pc, li, li_mem>>
    /\ UNCHANGED li_others

\* LoadedImage::overwrite_parent_handle
OverwriteParentHandle ==
    /\ li_pc = "open"
    /\ \E h \in Handles :
          /\ li' = [li EXCEPT !.parent_handle = h]
          /\ li_call' = Called("overwrite_parent_handle", h)
    /\ li_ret' = NoGetter
    /\ UNCHANGED <<li_pc, li_read, li_mem>>
    /\ UNCHANGED li_others

\* LoadedImage::overwrite_load_options (lines 101-104)
OverwriteLoadOptions ==
    /\ li_pc = "open"
    /\ \E b \in CallerBuffers :
          /\ li' = [li EXCEPT !.load_options_size = AsU32(b.len),
                              !.load_options = b.addr]
          /\ li_call' = Called("overwrite_load_options", b)
    /\ li_ret' = NoGetter
    /\ UNCHANGED <<li_pc, li_read, li_mem>>
    /\ UNCHANGED li_others

LiNext ==
    \/ GetParentHandle
    \/ GetDeviceHandle
    \/ GetFilePath
    \/ GetLoadOptions
    \/ GetImageBase
    \/ GetImageSize
    \/ GetImageCodeType
    \/ GetImageDataType
    \/ OverwriteParentHandle
    \/ OverwriteLoadOptions

\* C10: image_data_type returns the table's image_data_type field, whatever
\* image_code_type holds.
C10_ImageDataTypeReadsDataType ==
    li_ret.op = "image_data_type" => li_ret.value = Some(li.image_data_type)

GetterNames ==
    {"parent_handle", "device_handle", "file_path", "load_options", "image_base",
     "image_size", "image_code_type", "image_data_type"}

\* The fields of the table other than those in `fs` are left as they were.
LiFrame(fs) == \A f \in (DOMAIN li) \ fs : li'[f] = li[f]

\* C13: overwrite_parent_handle changes only parent_handle;
\* overwrite_load_options(b) sets load_options to the address of b and
\* load_options_size to b's length and changes no other field; every getter
\* leaves all fields unchanged.
C13_OverlayFrame ==
    [][ /\ li_call'.op = "overwrite_parent_handle" =>
              /\ li'.parent_handle = li_call'.arg
              /\ LiFrame({"parent_handle"})
        /\ li_call'.op = "overwrite_load_options" =>
              /\ li'.load_options = li_call'.arg.addr
              /\ UsizeOf(li'.load_options_size) = li_call'.arg.len
              /\ LiFrame({"load_options", "load_options_size"})
        /\ li_call'.op \in GetterNames => li' = li
      ]_vars

\* What the overwrite operations and the getters do to the table, with the
\* length taken at the width of the load_options_size field.
OverlayFrameU32 ==
    [][ /\ li_call'.op = "overwrite_parent_handle" =>
              /\ li'.parent_handle = li_call'.arg
              /\ LiFrame({"parent_handle"})
        /\ li_call'.op = "overwrite_load_options" =>
              /\ li'.load_options = li_call'.arg.addr
              /\ li'.load_options_size = AsU32(li_call'.arg.len)
              /\ LiFrame({"load_options", "load_options_size"})
        /\ li_call'.op \in GetterNames => li' = li
      ]_vars

\* C16: load_options reads only memory inside the current load options
\* region: at most load_options_size bytes starting at load_options.
C16_ReadsWithinLoadOptions ==
    li_call.op = "load_options" =>
        /\ li_read.from = li.load_options
        /\ li_read.len <= li.load_options_size


-----------------------------------------------------------------------------
\* RuntimeServices::get_variable or set_variable, one call of either.
InitGV == ((GVInit /\ SvOff) \/ (GVOff /\ SvInit)) /\ ItOff /\ DpOff /\ TmOff /\ LiOff
SpecGV == InitGV /\ [][GVNext \/ SvNext]_vars

\* get_variable against the firmware of the size-discovery contract alone,
\* run to its return.
InitGVContract == InitGV /\ gv_pc = "entry" /\ ~fw_faulty /\ ~fw_shared
GVContractNext == GetVariableBegin \/ GetVariableCall
FairSpecGV == InitGVContract /\ [][GVContractNext]_vars /\ GVFair

\* VariablesIterator alone.
InitIter == GVOff /\ SvOff /\ ItInit /\ DpOff /\ TmOff /\ LiOff
SpecIter == InitIter /\ [][ItNext]_vars

\* Device path traversal alone.
InitPath == GVOff /\ SvOff /\ ItOff /\ DpInit /\ TmOff /\ LiOff
SpecPath == InitPath /\ [][DpNext]_vars

\* Time::new alone.
InitTime == GVOff /\ SvOff /\ ItOff /\ DpOff /\ TmInit /\ LiOff
SpecTime == InitTime /\ [][TmNext]_vars

\* The LoadedImage view alone.
InitImage == GVOff /\ SvOff /\ ItOff /\ DpOff /\ TmOff /\ LiInit
SpecImage == InitImage /\ [][LiNext]_vars

\* One of the parts is in use, the others are not.
Init == InitGV \/ InitIter \/ InitPath \/ InitTime \/ InitImage

Next == GVNext \/ SvNext \/ ItNext \/ DpNext \/ TmNext \/ LiNext

Spec == Init /\ [][Next]_vars
====
